---------------------------- MODULE Spec2Model ----------------------------
(***************************************************************************)
(* Model of dive/patterns.py: continuation-passing pattern matching.       *)
(*                                                                         *)
(* A pattern tree is unified against a value; the interpreter is modelled  *)
(* as an abstract machine whose control register holds the call being      *)
(* made (unify of a node, a success continuation, a failure continuation,  *)
(* a return or a propagating exception) and whose stack holds the Python   *)
(* frames that still have work to do after the call they made returns      *)
(* (Variable.unify's unbind, Match.unify's try block, MatchAny.unify's     *)
(* loop).  Calls in tail position need no frame.                           *)
(***************************************************************************)
EXTENDS Integers, Sequences, FiniteSets, TLC

(***************************************************************************)
(* Bounds of the model.                                                    *)
(***************************************************************************)
MaxLen == 2          \* generated collections have at most MaxLen entries
MaxCalls == 2        \* the caller repeats the identical unify call

(***************************************************************************)
(* Python values: integers, lists, None and plain objects (test.py's Mock  *)
(* and MockMock).  An object carries its identity, since == on plain       *)
(* objects is identity; a missing attribute is marked Absent.              *)
(***************************************************************************)
IntV(n) == [t |-> "int", v |-> n]
ListV(s) == [t |-> "list", v |-> s]
NoneV == [t |-> "none", v |-> 0]
Absent == [t |-> "absent", v |-> 0]
ObjV(id, foo, bar, mock) ==
    [t |-> "obj", v |-> [id |-> id, foo |-> foo, bar |-> bar, mock |-> mock]]

\* an equality that would hold of any two values
PyEq_always(a, b) == TRUE

\* value == self.value (patterns.py lines 185 and 208)
PyEq(a, b) == a.t = b.t /\ a.v = b.v

\* an except clause that would name AttributeError only
SoftFaults_attr == {"AttributeError"}

\* the exceptions Match.unify converts into a failure (line 227)
SoftFaults == {"IndexError", "KeyError", "AttributeError"}

Ok(val) == [exc |-> "none", val |-> val]
Raised(exc) == [exc |-> exc, val |-> NoneV]

\* getattr(value, name), the lambda of Attribute.bind
GetAttr(value, name) ==
    IF value.t = "obj" /\ value.v[name] # Absent
    THEN Ok(value.v[name])
    ELSE Raised("AttributeError")

\* an index lookup that would count from the end
GetItem_reversed(value, index) ==
    IF value.t = "list"
    THEN IF index + 1 <= Len(value.v)
         THEN Ok(value.v[Len(value.v) - index])
         ELSE Raised("IndexError")
    ELSE Raised("TypeError")

\* value[index], the lambda of Index.bind
GetItem(value, index) ==
    IF value.t = "list"
    THEN IF index + 1 <= Len(value.v)
         THEN Ok(value.v[index + 1])
         ELSE Raised("IndexError")
    ELSE Raised("TypeError")

\* the predicate of the module docstring's If example: lambda x: x < 3
\* (Python 2 orders every number below every list and object)
LessThan3(value) == value.t = "int" /\ value.v < 3

\* isinstance(value, int), the lambda of Subtype.bind
IsInstanceInt(value) == value.t = "int"

\* for entry in value: only lists are iterated in this model
Iterable(value) == value.t = "list"

(***************************************************************************)
(* Pattern nodes.  Every node has the same fields so that nodes of         *)
(* different classes can be members of one set; pos is the node's place    *)
(* in the tree and stands for the identity of the Python object.           *)
(***************************************************************************)
Node(kind, name, num, value, must_exist, only_once, subs) ==
    [kind |-> kind, name |-> name, num |-> num, value |-> value,
     must_exist |-> must_exist, only_once |-> only_once,
     subs |-> subs, pos |-> <<>>]

Anything == Node("Anything", "", 0, NoneV, FALSE, FALSE, <<>>)
Nothing == Node("Nothing", "", 0, NoneV, FALSE, FALSE, <<>>)
Constant(value) == Node("Constant", "", 0, value, FALSE, FALSE, <<>>)
Variable(id) == Node("Variable", id, 0, NoneV, FALSE, FALSE, <<>>)
Match(name, num, into) == Node("Match", name, num, NoneV, FALSE, FALSE, <<into>>)
Ensure(name, into) == Node("Ensure", name, 0, NoneV, FALSE, FALSE, <<into>>)
And(first, second) == Node("And", "", 0, NoneV, FALSE, FALSE, <<first, second>>)
Or(first, second) == Node("Or", "", 0, NoneV, FALSE, FALSE, <<first, second>>)
MatchAny(must_exist, only_once, into) ==
    Node("MatchAny", "", 0, NoneV, must_exist, only_once, <<into>>)
MatchAll(into) == Node("MatchAll", "", 0, NoneV, FALSE, FALSE, <<into>>)

\* the chainable patterns: X ** bind is X.bind(bind)
Attribute(name, bind) == Match(name, 0, bind)
Index(index, bind) == Match("[]", index, bind)
If(bind) == Ensure("lt3", bind)
Subtype(bind) == Ensure("int", bind)
Some(bind) == MatchAny(TRUE, FALSE, bind)
First(bind) == MatchAny(TRUE, TRUE, bind)
Each(bind) == MatchAny(FALSE, FALSE, bind)
All(bind) == MatchAll(bind)

\* fields of a node by the names the classes give them
first(self) == self.subs[1]
second(self) == self.subs[2]
into(self) == self.subs[1]

\* self.match(value) of a Match node
MatchFn(self, value) ==
    IF self.name = "[]" THEN GetItem(value, self.num) ELSE GetAttr(value, self.name)

\* self.match(value) of an Ensure node
EnsureFn(self, value) ==
    IF self.name = "lt3" THEN LessThan3(value) ELSE IsInstanceInt(value)

RECURSIVE Place(_, _)
\* the identity of every node of a tree: its path from the root
Place(n, p) ==
    [n EXCEPT !.pos = p,
              !.subs = [i \in 1..Len(n.subs) |-> Place(n.subs[i], Append(p, i))]]


(***************************************************************************)
(* The values and the pattern trees the caller may choose.                 *)
(***************************************************************************)
VarIds == {"v1", "v2"}

\* the scalars: two below the docstring predicate's threshold 3 and one not
Ints == {IntV(1), IntV(2), IntV(3)}

RECURSIVE ListsOver(_, _)
\* the lists of at most n entries drawn from E
ListsOver(E, n) ==
    IF n = 0 THEN {<<>>}
    ELSE LET S == ListsOver(E, n - 1)
         IN  S \cup {Append(s, e) : s \in {x \in S : Len(x) = n - 1}, e \in E}

IntLists == {ListV(s) : s \in ListsOver(Ints, MaxLen)}

\* the collection of the module docstring's If example
DocList == ListV(<<IntV(1), IntV(2), IntV(3), IntV(4)>>)

\* collections of collections
NestedLists ==
    {ListV(s) : s \in ListsOver({ListV(<<>>), ListV(<<IntV(1), IntV(2)>>)}, MaxLen)}

\* test.py's Mock(foo), optionally with a bar attribute
Mocks ==
    {ObjV(1, f, b, Absent) :
        f \in {Absent, IntV(1), IntV(2)},
        b \in {Absent, IntV(1), IntV(2), ListV(<<IntV(1), IntV(2)>>)}}

\* test.py's MockMock: foo, bar = [1, 2, 3], mock = Mock(foo)
MockMocks ==
    {ObjV(1, f, ListV(<<IntV(1), IntV(2), IntV(3)>>), ObjV(2, g, Absent, Absent)) :
        f \in {IntV(1), IntV(2)}, g \in {IntV(1), IntV(2)}}

Values == Ints \cup IntLists \cup {DocList} \cup NestedLists \cup Mocks \cup MockMocks

Atoms == {Anything, Nothing, Constant(IntV(1)), Constant(IntV(2)),
          Variable("v1"), Variable("v2")}

\* one chainable pattern bound to p
Chained(p) ==
    {Attribute("foo", p), Attribute("bar", p), Index(0, p), Index(1, p),
     If(p), Subtype(p), Some(p), First(p), Each(p), All(p)}

Level1 ==
    Atoms \cup UNION {Chained(p) : p \in Atoms}
          \cup {And(p, q) : p \in Atoms, q \in Atoms}
          \cup {Or(p, q) : p \in Atoms, q \in Atoms}

\* the atoms the deeper trees are built from
Atoms2 == {Anything, Nothing, Variable("v1")}

\* a quantifier over a chained pattern, a lookup of a chained pattern
Chains2 ==
    UNION {{Some(q), First(q), Each(q), All(q), Attribute("foo", q), Attribute("bar", q)} :
              q \in UNION {Chained(p) : p \in Atoms2}}

\* a conjunction or disjunction with a chained pattern on one side
Mixed2 ==
    LET C == UNION {{Attribute("foo", p), Index(0, p), If(p), Some(p), First(p), All(p)} :
                        p \in Atoms2}
        B == {Nothing, Variable("v1")}
    IN  {And(p, q) : p \in C, q \in B} \cup {And(p, q) : p \in B, q \in C}
        \cup {Or(p, q) : p \in C, q \in B} \cup {Or(p, q) : p \in B, q \in C}

\* a conjunction or disjunction nested in another
Nested2 ==
    LET I == {And(p, q) : p \in Atoms2, q \in Atoms2}
             \cup {Or(p, q) : p \in Atoms2, q \in Atoms2}
        B == {Nothing, Variable("v1")}
    IN  {And(p, q) : p \in I, q \in B} \cup {And(p, q) : p \in B, q \in I}
        \cup {Or(p, q) : p \in I, q \in B} \cup {Or(p, q) : p \in B, q \in I}

Level2 == Level1 \cup Chains2 \cup Mixed2 \cup Nested2

\* the patterns of the module docstring and of test.py, and their variants
Examples ==
    \* Attribute('foo') ** var & Attribute('bar') ** var
    {And(Attribute(a, Variable(x)), Attribute(b, Variable(y))) :
        a \in {"foo", "bar"}, b \in {"foo", "bar"}, x \in VarIds, y \in VarIds}
    \* (Attribute(a) ** v & Nothing) | Attribute(b) ** v
    \cup {Or(And(Attribute(a, Variable("v1")), Nothing), Attribute(b, Variable(y))) :
        a \in {"foo", "bar"}, b \in {"foo", "bar"}, y \in VarIds}
    \* Attribute(a) ** (v & All ** Anything)
    \cup {Attribute(a, And(Variable("v1"), q)) :
        a \in {"foo", "bar"}, q \in Chained(Anything)}
    \* Index(i) ** v & Q ** Anything: a quantifier matched after a lookup
    \cup {And(Index(0, Variable("v1")), q) : q \in Chained(Anything)}
    \* (Some ** v & Index(i) ** v) combined with an atom: the conjunction
    \* succeeds for some entries and fails for others
    \cup {Or(And(Some(Variable("v1")), Index(0, Variable("v1"))), q) : q \in Atoms}
    \cup {And(And(Some(Variable("v1")), Index(0, Variable("v1"))), q) : q \in Atoms}
    \* Attribute('bar') ** Index(2) ** X: a lookup past the end of [1, 2]
    \cup {Attribute("bar", Index(2, p)) : p \in Atoms2}
    \* test_pattern: pattern1 & Attribute('foo') ** v2
    \*                        & Attribute('mock') ** Attribute('foo') ** v2
    \cup {And(And(Attribute("bar", Index(1, Variable("v1"))),
                  Attribute("foo", Variable("v2"))),
              Attribute("mock", Attribute("foo", Variable(y)))) : y \in VarIds}

Patterns == {Place(p, <<>>) : p \in Level2 \cup Examples}

(***************************************************************************)
(* The state of one run: the caller's pattern and value, the Variables'    *)
(* fields, the interpreter's control register and stack, the matched_once  *)
(* lists of the MatchAny.unify activations, and the record of what the     *)
(* interpreter did (unify calls entered, caller callbacks invoked).        *)
(***************************************************************************)
VARIABLES pattern, value, binding, ctl, stack, cells, trace, outcomes

vars == <<pattern, value, binding, ctl, stack, cells, trace, outcomes>>

\* Variable.__init__: bound = False, value = None
Unbound == [bound |-> FALSE, value |-> NoneV]

\* the caller's callbacks and the module's fail_silent
onSuccess == [k |-> "onSuccess"]
onFailure == [k |-> "onFailure"]
fail_silent == [k |-> "fail_silent"]

\* the control register
Unify(self, v, cont, fail) ==
    [op |-> "unify", self |-> self, value |-> v, cont |-> cont, fail |-> fail]
Cont(f) == [op |-> "cont", f |-> f]
Fail(f, p, v) == [op |-> "fail", f |-> f, pattern |-> p, value |-> v]
Return == [op |-> "return"]
Raise(exc) == [op |-> "raise", exc |-> exc]
Idle == [op |-> "idle"]

Top == stack[Len(stack)]
Pop == SubSeq(stack, 1, Len(stack) - 1)
Push(frame) == Append(stack, frame)

\* the record of a unify call being entered, with the Variables as they are
Entered ==
    Append(trace, [ev |-> "unify", pos |-> ctl.self.pos, kind |-> ctl.self.kind,
                   value |-> ctl.value, cont |-> ctl.cont, fail |-> ctl.fail,
                   binding |-> binding])

Unifying(kind) == ctl.op = "unify" /\ ctl.self.kind = kind

Init ==
    /\ pattern \in Patterns
    /\ value \in Values
    /\ binding = [id \in VarIds |-> Unbound]
    /\ ctl = Idle
    /\ stack = <<>>
    /\ cells = <<>>
    /\ trace = <<>>
    /\ outcomes = <<>>

\* the caller: pattern.unify(value, onSuccess, onFailure)
Call ==
    /\ ctl.op = "idle"
    /\ Len(outcomes) < MaxCalls
    /\ ctl' = Unify(pattern, value, onSuccess, onFailure)
    /\ trace' = <<[ev |-> "call", binding |-> binding]>>
    /\ UNCHANGED <<pattern, value, binding, stack, cells, outcomes>>

\* Anything.unify: cont()
Anything_unify ==
    /\ Unifying("Anything")
    /\ ctl' = Cont(ctl.cont)
    /\ trace' = Entered
    /\ UNCHANGED <<pattern, value, binding, stack, cells, outcomes>>

\* Nothing.unify: fail(self, value)
Nothing_unify ==
    /\ Unifying("Nothing")
    /\ ctl' = Fail(ctl.fail, ctl.self, ctl.value)
    /\ trace' = Entered
    /\ UNCHANGED <<pattern, value, binding, stack, cells, outcomes>>

\* Constant.unify
Constant_unify ==
    /\ Unifying("Constant")
    /\ ctl' = IF PyEq(ctl.value, ctl.self.value)
              THEN Cont(ctl.cont)
              ELSE Fail(ctl.fail, ctl.self, ctl.value)
    /\ trace' = Entered
    /\ UNCHANGED <<pattern, value, binding, stack, cells, outcomes>>

\* a bind_to that would lose the value
bind_to_none(b, id, v) == [b EXCEPT ![id] = [bound |-> TRUE, value |-> NoneV]]

\* Variable.bind_to
bind_to(b, id, v) == [b EXCEPT ![id] = [bound |-> TRUE, value |-> v]]

\* Variable.unbind
unbind(b, id) == [b EXCEPT ![id] = Unbound]

\* a bound Variable that would accept any value
Variable_compare_any(self, v, cont, fail, b) == Cont(cont)

\* a bound Variable that would say nothing of a value that differs
Variable_compare_mute(self, v, cont, fail, b) ==
    IF PyEq(v, b[self.name].value) THEN Cont(cont) ELSE Return

\* Variable.unify, lines 185-188: the Variable is bound
Variable_compare(self, v, cont, fail, b) ==
    IF PyEq(v, b[self.name].value) THEN Cont(cont) ELSE Fail(fail, self, v)

\* Variable.unify up to the call it makes: a bound Variable compares, an
\* unbound one binds and stays on the stack to unbind after cont() returns
Variable_unify ==
    /\ Unifying("Variable")
    /\ LET id == ctl.self.name IN
       IF binding[id].bound
       THEN /\ ctl' = Variable_compare(ctl.self, ctl.value, ctl.cont, ctl.fail, binding)
            /\ UNCHANGED <<binding, stack>>
       ELSE /\ binding' = bind_to(binding, id, ctl.value)
            /\ stack' = Push([f |-> "Variable", self |-> ctl.self])
            /\ ctl' = Cont(ctl.cont)
    /\ trace' = Entered
    /\ UNCHANGED <<pattern, value, cells, outcomes>>

\* Variable.unify, line 192: cont() returned, self.unbind()
Variable_backtrack ==
    /\ ctl.op = "return"
    /\ stack # <<>> /\ Top.f = "Variable"
    /\ binding' = unbind(binding, Top.self.name)
    /\ stack' = Pop
    /\ UNCHANGED <<pattern, value, ctl, cells, trace, outcomes>>

\* Match.unify up to the call it makes: self.match(value) is evaluated
\* inside the try block; into.unify runs inside it as well
Match_unify ==
    /\ Unifying("Match")
    /\ LET r == MatchFn(ctl.self, ctl.value) IN
       IF r.exc = "none"
       THEN /\ stack' = Push([f |-> "Match", self |-> ctl.self,
                              value |-> ctl.value, fail |-> ctl.fail])
            /\ ctl' = Unify(into(ctl.self), r.val, ctl.cont, ctl.fail)
       ELSE IF r.exc \in SoftFaults
       THEN /\ ctl' = Fail(ctl.fail, ctl.self, ctl.value)
            /\ UNCHANGED stack
       ELSE /\ ctl' = Raise(r.exc)
            /\ UNCHANGED stack
    /\ trace' = Entered
    /\ UNCHANGED <<pattern, value, binding, cells, outcomes>>

\* Match.unify: into.unify returned, the try block ends
Match_return ==
    /\ ctl.op = "return"
    /\ stack # <<>> /\ Top.f = "Match"
    /\ stack' = Pop
    /\ UNCHANGED <<pattern, value, binding, ctl, cells, trace, outcomes>>

\* Match.unify, lines 227-228: an exception reaches the try block
Match_except ==
    /\ ctl.op = "raise"
    /\ stack # <<>> /\ Top.f = "Match"
    /\ stack' = Pop
    /\ ctl' = IF ctl.exc \in SoftFaults
              THEN Fail(Top.fail, Top.self, Top.value)
              ELSE ctl
    /\ UNCHANGED <<pattern, value, binding, cells, trace, outcomes>>

\* Ensure.unify: cont() when self.match(value) holds; self.into is not used
Ensure_unify ==
    /\ Unifying("Ensure")
    /\ ctl' = IF EnsureFn(ctl.self, ctl.value)
              THEN Cont(ctl.cont)
              ELSE Fail(ctl.fail, ctl.self, ctl.value)
    /\ trace' = Entered
    /\ UNCHANGED <<pattern, value, binding, stack, cells, outcomes>>

\* a conjunction that would match its first pattern a second time
lambda_and_again(self, v, cont, fail) ==
    [k |-> "lambda_and", second |-> first(self), value |-> v,
     cont |-> cont, fail |-> fail]

\* the success continuation And.unify passes to first (line 250)
lambda_and(self, v, cont, fail) ==
    [k |-> "lambda_and", second |-> second(self), value |-> v,
     cont |-> cont, fail |-> fail]

\* a disjunction that would hand the first pattern's failure to the caller
lambda_or_giveup(self, v, cont, fail) == fail

\* the failure continuation Or.unify passes to first (line 267)
lambda_or(self, v, cont, fail) ==
    [k |-> "lambda_or", second |-> second(self), value |-> v,
     cont |-> cont, fail |-> fail]

\* And.unify
And_unify ==
    /\ Unifying("And")
    /\ ctl' = Unify(first(ctl.self), ctl.value,
                    lambda_and(ctl.self, ctl.value, ctl.cont, ctl.fail), ctl.fail)
    /\ trace' = Entered
    /\ UNCHANGED <<pattern, value, binding, stack, cells, outcomes>>

\* Or.unify
Or_unify ==
    /\ Unifying("Or")
    /\ ctl' = Unify(first(ctl.self), ctl.value, ctl.cont,
                    lambda_or(ctl.self, ctl.value, ctl.cont, ctl.fail))
    /\ trace' = Entered
    /\ UNCHANGED <<pattern, value, binding, stack, cells, outcomes>>

\* lambda: self.second.unify(value, cont, fail)
And_second ==
    /\ ctl.op = "cont" /\ ctl.f.k = "lambda_and"
    /\ ctl' = Unify(ctl.f.second, ctl.f.value, ctl.f.cont, ctl.f.fail)
    /\ UNCHANGED <<pattern, value, binding, stack, cells, trace, outcomes>>

\* lambda *t: self.second.unify(value, cont, fail)
Or_second ==
    /\ ctl.op = "fail" /\ ctl.f.k = "lambda_or"
    /\ ctl' = Unify(ctl.f.second, ctl.f.value, ctl.f.cont, ctl.f.fail)
    /\ UNCHANGED <<pattern, value, binding, stack, cells, trace, outcomes>>

\* fail_silent(*_): pass
Fail_silent ==
    /\ ctl.op = "fail" /\ ctl.f.k = "fail_silent"
    /\ ctl' = Return
    /\ UNCHANGED <<pattern, value, binding, stack, cells, trace, outcomes>>

\* the caller's success callback: it observes the Variables and returns
OnSuccess ==
    /\ ctl.op = "cont" /\ ctl.f.k = "onSuccess"
    /\ trace' = Append(trace, [ev |-> "onSuccess", binding |-> binding])
    /\ ctl' = Return
    /\ UNCHANGED <<pattern, value, binding, stack, cells, outcomes>>

\* the caller's failure callback: it records its two arguments and returns
OnFailure ==
    /\ ctl.op = "fail" /\ ctl.f.k = "onFailure"
    /\ trace' = Append(trace, [ev |-> "onFailure", pos |-> ctl.pattern.pos,
                               kind |-> ctl.pattern.kind, value |-> ctl.value,
                               binding |-> binding])
    /\ ctl' = Return
    /\ UNCHANGED <<pattern, value, binding, stack, cells, outcomes>>

\* the local function continuation of MatchAny.unify (lines 284-286); cell
\* is the matched_once list of the activation that made it
continuation(cell, cont) == [k |-> "continuation", cell |-> cell, cont |-> cont]

\* a loop that would never stop early
MatchAny_break_never(self, matched_once) == FALSE

\* MatchAny.unify, line 290: if self.only_once and matched_once[0]: break
MatchAny_break(self, matched_once) == self.only_once /\ matched_once

\* a quantifier that would never report a failure
MatchAny_after_silent(self, v, fail, matched_once) == Return

\* a quantifier that would report a failure whatever must_exist says
MatchAny_after_strict(self, v, fail, matched_once) ==
    IF ~matched_once THEN Fail(fail, self, v) ELSE Return

\* MatchAny.unify, lines 293-295, after the loop
MatchAny_after(self, v, fail, matched_once) ==
    IF self.must_exist /\ ~matched_once THEN Fail(fail, self, v) ELSE Return

\* MatchAny.unify up to the first into.unify call
MatchAny_unify ==
    /\ Unifying("MatchAny")
    /\ trace' = Entered
    /\ IF ~Iterable(ctl.value)
       THEN /\ ctl' = Raise("TypeError")
            /\ UNCHANGED <<stack, cells>>
       ELSE /\ cells' = Append(cells, FALSE)
            /\ IF Len(ctl.value.v) = 0
               THEN /\ ctl' = MatchAny_after(ctl.self, ctl.value, ctl.fail, FALSE)
                    /\ UNCHANGED stack
               ELSE /\ stack' = Push([f |-> "MatchAny", self |-> ctl.self,
                                      value |-> ctl.value, i |-> 1,
                                      cell |-> Len(cells) + 1,
                                      cont |-> ctl.cont, fail |-> ctl.fail])
                    /\ ctl' = Unify(into(ctl.self), ctl.value.v[1],
                                    continuation(Len(cells) + 1, ctl.cont),
                                    fail_silent)
    /\ UNCHANGED <<pattern, value, binding, outcomes>>

\* continuation(): matched_once[:] = [True]; cont()
MatchAny_continuation ==
    /\ ctl.op = "cont" /\ ctl.f.k = "continuation"
    /\ cells' = [cells EXCEPT ![ctl.f.cell] = TRUE]
    /\ ctl' = Cont(ctl.f.cont)
    /\ UNCHANGED <<pattern, value, binding, stack, trace, outcomes>>

\* MatchAny.unify, lines 290-295: into.unify returned for entry i
MatchAny_next ==
    /\ ctl.op = "return"
    /\ stack # <<>> /\ Top.f = "MatchAny"
    /\ LET fr == Top IN
       IF MatchAny_break(fr.self, cells[fr.cell]) \/ fr.i = Len(fr.value.v)
       THEN /\ stack' = Pop
            /\ ctl' = MatchAny_after(fr.self, fr.value, fr.fail, cells[fr.cell])
       ELSE /\ stack' = [stack EXCEPT ![Len(stack)].i = fr.i + 1]
            /\ ctl' = Unify(into(fr.self), fr.value.v[fr.i + 1],
                            continuation(fr.cell, fr.cont), fail_silent)
    /\ UNCHANGED <<pattern, value, binding, cells, trace, outcomes>>

\* MatchAll.unify: the loop body reads self.each, which no MatchAll object
\* has (__init__ sets self.into), so the first entry raises AttributeError;
\* an empty collection runs no iteration and the method returns
MatchAll_unify ==
    /\ Unifying("MatchAll")
    /\ ctl' = IF ~Iterable(ctl.value) THEN Raise("TypeError")
              ELSE IF Len(ctl.value.v) = 0 THEN Return
              ELSE Raise("AttributeError")
    /\ trace' = Entered
    /\ UNCHANGED <<pattern, value, binding, stack, cells, outcomes>>

\* an exception leaves Variable.unify or MatchAny.unify: neither has a
\* handler, so the frame is dropped and line 192 is not run
Unwind ==
    /\ ctl.op = "raise"
    /\ stack # <<>> /\ Top.f \in {"Variable", "MatchAny"}
    /\ stack' = Pop
    /\ UNCHANGED <<pattern, value, binding, ctl, cells, trace, outcomes>>

\* unify returns to the caller
Returned ==
    /\ ctl.op = "return" /\ stack = <<>>
    /\ outcomes' = Append(outcomes, [result |-> "returned", trace |-> trace,
                                     binding |-> binding])
    /\ ctl' = Idle
    /\ UNCHANGED <<pattern, value, binding, stack, cells, trace>>

\* unify raises to the caller
Uncaught ==
    /\ ctl.op = "raise" /\ stack = <<>>
    /\ outcomes' = Append(outcomes, [result |-> ctl.exc, trace |-> trace,
                                     binding |-> binding])
    /\ ctl' = Idle
    /\ UNCHANGED <<pattern, value, binding, stack, cells, trace>>

Next ==
    \/ Call
    \/ Anything_unify
    \/ Nothing_unify
    \/ Constant_unify
    \/ Variable_unify
    \/ Variable_backtrack
    \/ Match_unify
    \/ Match_return
    \/ Match_except
    \/ Ensure_unify
    \/ And_unify
    \/ Or_unify
    \/ And_second
    \/ Or_second
    \/ Fail_silent
    \/ OnSuccess
    \/ OnFailure
    \/ MatchAny_unify
    \/ MatchAny_continuation
    \/ MatchAny_next
    \/ MatchAll_unify
    \/ Unwind
    \/ Returned
    \/ Uncaught

Spec == Init /\ [][Next]_vars

(***************************************************************************)
(* What the caller observes of a call.                                     *)
(***************************************************************************)
AllUnbound(b) == \A id \in VarIds : b[id] = Unbound

IsSuccess(e) == e.ev = "onSuccess"
IsFailure(e) == e.ev = "onFailure"
IsCallback(e) == e.ev \in {"onSuccess", "onFailure"}

\* the onSuccess invocations, the onFailure invocations of a trace
Successes(tr) == SelectSeq(tr, IsSuccess)
Failures(tr) == SelectSeq(tr, IsFailure)
Callbacks(tr) == SelectSeq(tr, IsCallback)

\* the call of this trace was made with every Variable unbound
Clean(tr) == AllUnbound(tr[1].binding)

Finished == 1..Len(outcomes)

\* p is a prefix of q: the node at q lies in the subtree of the node at p
IsPrefix(p, q) == Len(p) <= Len(q) /\ SubSeq(q, 1, Len(p)) = p

(***************************************************************************)
(* C1.  Backtracking invariant: a unify call made with every Variable      *)
(* unbound, and that returns, leaves every Variable unbound again, and     *)
(* repeating the identical call invokes the same callbacks in the same     *)
(* order.  The code breaks it: All ** P raises AttributeError on a         *)
(* non-empty collection, the exception skips the unbind of line 192, and   *)
(* an enclosing Attribute or Index converts it into an ordinary failure.   *)
(***************************************************************************)
C1_Backtracking ==
    /\ \A i \in Finished :
          (outcomes[i].result = "returned" /\ Clean(outcomes[i].trace))
              => AllUnbound(outcomes[i].binding)
    /\ \A i \in Finished : \A j \in Finished :
          (Clean(outcomes[i].trace) /\ Clean(outcomes[j].trace))
              => Callbacks(outcomes[i].trace) = Callbacks(outcomes[j].trace)

(***************************************************************************)
(* C2.  A bound Variable matched against x calls its success continuation  *)
(* once if x equals the bound value and its failure continuation with      *)
(* (the Variable, x) once otherwise, without touching its fields and       *)
(* without staying on the stack; and a bound Variable changes only when    *)
(* the activation that bound it unbinds it on return (it is never rebound, *)
(* and the return of a nested match on it does not unbind it).             *)
(***************************************************************************)
C2_BoundVariable ==
    [][/\ (Unifying("Variable") /\ binding[ctl.self.name].bound) =>
            /\ binding' = binding
            /\ stack' = stack
            /\ ctl' = IF ctl.value = binding[ctl.self.name].value
                      THEN Cont(ctl.cont)
                      ELSE Fail(ctl.fail, ctl.self, ctl.value)
       /\ \A id \in VarIds :
            (binding[id].bound /\ binding'[id] # binding[id]) =>
                /\ ctl.op = "return" /\ stack # <<>>
                /\ Top.f = "Variable" /\ Top.self.name = id
                /\ binding'[id] = Unbound
                /\ \A k \in 1..(Len(stack) - 1) :
                      ~(stack[k].f = "Variable" /\ stack[k].self.name = id)
      ]_vars

\* a Variable is matched, from inside the continuation that bound it,
\* against a value other than its own, and reports the failure still bound
C2_Witness ==
    /\ ctl.op = "fail" /\ ctl.pattern.kind = "Variable"
    /\ binding[ctl.pattern.name].bound
    /\ binding[ctl.pattern.name].value # ctl.value
    /\ \E k \in 1..Len(stack) :
          stack[k].f = "Variable" /\ stack[k].self.name = ctl.pattern.name

(***************************************************************************)
(* C3.  Attribute('foo') ** var & Attribute('bar') ** var, var unbound:    *)
(* onSuccess is invoked if and only if the object has both attributes and  *)
(* they are equal, then exactly once and with var.value the common value;  *)
(* when both exist and differ onFailure is invoked exactly once and        *)
(* onSuccess never.                                                        *)
(***************************************************************************)
FooBar(x) ==
    Place(And(Attribute("foo", Variable(x)), Attribute("bar", Variable(x))), <<>>)

HasBoth == value.t = "obj" /\ value.v.foo # Absent /\ value.v.bar # Absent

C3_RepeatedVariable ==
    \A x \in VarIds : \A i \in Finished :
        (pattern = FooBar(x) /\ Clean(outcomes[i].trace)) =>
            LET S == Successes(outcomes[i].trace)
                F == Failures(outcomes[i].trace)
                equal == HasBoth /\ value.v.foo = value.v.bar
            IN  /\ outcomes[i].result = "returned"
                /\ Len(S) > 0 <=> equal
                /\ equal => /\ Len(S) = 1 /\ Len(F) = 0
                            /\ S[1].binding[x] = [bound |-> TRUE, value |-> value.v.foo]
                /\ (HasBoth /\ ~equal) => (Len(F) = 1 /\ Len(S) = 0)

\* the pattern has succeeded on an object whose foo and bar are equal
C3_Witness ==
    /\ \E x \in VarIds : pattern = FooBar(x)
    /\ HasBoth /\ value.v.foo = value.v.bar
    /\ outcomes # <<>> /\ Len(Successes(outcomes[1].trace)) = 1

(***************************************************************************)
(* Reading the record of a call.                                           *)
(***************************************************************************)
RECURSIVE NodeAt(_, _)
\* the node of tree n at place p
NodeAt(n, p) == IF p = <<>> THEN n ELSE NodeAt(n.subs[Head(p)], Tail(p))

Front(p) == SubSeq(p, 1, Len(p) - 1)
Last(p) == p[Len(p)]

IsEntry(e) == e.ev = "unify"

\* event e is the entry of the unify of a child (first or second, by n) of
\* a node of class kind
IsChildEntry(e, kind, n) ==
    /\ IsEntry(e) /\ e.pos # <<>> /\ Last(e.pos) = n
    /\ NodeAt(pattern, Front(e.pos)).kind = kind

\* the latest entry, before event j, of the unify of the node at place p
EntryBefore(tr, p, j) ==
    CHOOSE i \in 1..(j - 1) :
        /\ IsEntry(tr[i]) /\ tr[i].pos = p
        /\ \A k \in (i + 1)..(j - 1) : ~(IsEntry(tr[k]) /\ tr[k].pos = p)

BoundSet(b) == {id \in VarIds : b[id].bound}

(***************************************************************************)
(* C4.  In Disjunction(A, B) every Variable A bound during its failed      *)
(* attempt is unbound again before B is matched: when B.unify is entered   *)
(* exactly the Variables bound at the Disjunction's entry are bound, so    *)
(* (Attribute(a) ** v & Nothing) | Attribute(b) ** v succeeds through B    *)
(* with v freshly bound to the object's b.  The code matches B from        *)
(* inside A's failure continuation, while A's bindings are still live.     *)
(***************************************************************************)
OrOfLookups(a, b) ==
    Place(Or(And(Attribute(a, Variable("v1")), Nothing),
             Attribute(b, Variable("v1"))), <<>>)

C4_OrUnwinds ==
    /\ \A j \in 1..Len(trace) :
          IsChildEntry(trace[j], "Or", 2) =>
              BoundSet(trace[j].binding)
                  = BoundSet(trace[EntryBefore(trace, Front(trace[j].pos), j)].binding)
    /\ \A a \in {"foo", "bar"} : \A b \in {"foo", "bar"} : \A i \in Finished :
          (/\ pattern = OrOfLookups(a, b) /\ Clean(outcomes[i].trace)
           /\ value.t = "obj" /\ value.v[a] # Absent /\ value.v[b] # Absent)
              => LET S == Successes(outcomes[i].trace)
                 IN  /\ Len(S) = 1
                     /\ S[1].binding["v1"] = [bound |-> TRUE, value |-> value.v[b]]

RECURSIVE VarsOf(_)
\* the Variables occurring in tree n
VarsOf(n) ==
    (IF n.kind = "Variable" THEN {n.name} ELSE {})
        \cup UNION {VarsOf(n.subs[i]) : i \in 1..Len(n.subs)}

RECURSIVE HasQuantifier(_)
\* tree n contains a collection quantifier
HasQuantifier(n) ==
    \/ n.kind \in {"MatchAny", "MatchAll"}
    \/ \E i \in 1..Len(n.subs) : HasQuantifier(n.subs[i])

\* events j+1..k of tr are all entries of nodes under place p or onSuccess
\* invocations: they happen while the match of the node at p runs
RunsWithin(tr, p, j, k) ==
    \A m \in (j + 1)..k :
        \/ IsSuccess(tr[m])
        \/ IsEntry(tr[m]) /\ IsPrefix(p, tr[m].pos)

(***************************************************************************)
(* C5.  In Conjunction(A, B) matched against x: A is matched against x     *)
(* with the caller's onFailure as its failure continuation and "match B"   *)
(* as its success continuation; B is matched only by that continuation,    *)
(* against the same x and with the caller's original onSuccess and         *)
(* onFailure, the Variable whose binding led to it being bound to the      *)
(* value it matched; every Variable bound when B is entered keeps its      *)
(* value while B runs and while onSuccess runs; onSuccess is invoked only  *)
(* after B has been entered; and when a node of an A without quantifiers   *)
(* decides the failure, the call invokes onFailure once and neither B nor  *)
(* onSuccess.                                                              *)
(***************************************************************************)
C5_AndTrace ==
    \A j \in 1..Len(trace) :
        LET e == trace[j] IN
        /\ (IsEntry(e) /\ e.kind = "And" /\ j < Len(trace)) =>
              LET a == trace[j + 1] IN
              /\ IsEntry(a) /\ a.pos = Append(e.pos, 1)
              /\ a.value = e.value
              /\ a.fail = e.fail
              /\ a.cont = [k |-> "lambda_and",
                           second |-> NodeAt(pattern, Append(e.pos, 2)),
                           value |-> e.value, cont |-> e.cont, fail |-> e.fail]
        /\ IsChildEntry(e, "And", 2) =>
              LET i == EntryBefore(trace, Front(e.pos), j)
                  l == trace[j - 1]
              IN  /\ e.value = trace[i].value
                  /\ e.cont = trace[i].cont
                  /\ e.fail = trace[i].fail
                  /\ IsEntry(l) /\ IsPrefix(Append(Front(e.pos), 1), l.pos)
                  /\ l.kind = "Variable" =>
                        LET id == NodeAt(pattern, l.pos).name IN
                        e.binding[id] =
                            IF l.binding[id].bound THEN l.binding[id]
                            ELSE [bound |-> TRUE, value |-> l.value]
                  /\ \A k \in j..Len(trace) :
                        RunsWithin(trace, e.pos, j, k) =>
                            \A id \in BoundSet(e.binding) :
                                trace[k].binding[id] = e.binding[id]
        /\ (pattern.kind = "And" /\ IsSuccess(e)) =>
              \E i \in 1..(j - 1) : IsEntry(trace[i]) /\ trace[i].pos = <<2>>
        /\ (/\ pattern.kind = "And" /\ ~HasQuantifier(first(pattern))
            /\ IsFailure(e) /\ IsPrefix(<<1>>, e.pos)
            /\ IsEntry(trace[j - 1]) /\ trace[j - 1].pos = e.pos) =>
              /\ \A i \in 1..Len(trace) : ~(IsEntry(trace[i]) /\ trace[i].pos = <<2>>)
              /\ Len(Successes(trace)) = 0
              /\ Len(Failures(trace)) = 1

C5_AndStep ==
    (/\ ctl'.op = "unify" /\ ctl'.self.pos # <<>> /\ Last(ctl'.self.pos) = 2
     /\ NodeAt(pattern, Front(ctl'.self.pos)).kind = "And")
        => ctl.op = "cont" /\ ctl.f.k = "lambda_and"

NoEntryBefore(tr, p, j) ==
    \A i \in 1..(j - 1) : ~(IsEntry(tr[i]) /\ tr[i].pos = p)

C6_OrTrace ==
    \A j \in 1..Len(trace) :
        LET e == trace[j] IN
        /\ (IsEntry(e) /\ e.kind = "Or" /\ j < Len(trace)) =>
              LET a == trace[j + 1] IN
              /\ IsEntry(a) /\ a.pos = Append(e.pos, 1)
              /\ a.value = e.value
              /\ a.cont = e.cont
              /\ a.fail = [k |-> "lambda_or",
                           second |-> NodeAt(pattern, Append(e.pos, 2)),
                           value |-> e.value, cont |-> e.cont, fail |-> e.fail]
        /\ IsChildEntry(e, "Or", 2) =>
              LET i == EntryBefore(trace, Front(e.pos), j)
              IN  /\ e.value = trace[i].value
                  /\ e.cont = trace[i].cont
                  /\ e.fail = trace[i].fail
                  /\ \E k \in (i + 1)..(j - 1) :
                        /\ IsEntry(trace[k])
                        /\ IsPrefix(Append(Front(e.pos), 1), trace[k].pos)
        /\ (pattern.kind = "Or" /\ IsFailure(e)) => IsPrefix(<<2>>, e.pos)
        /\ (/\ pattern.kind = "Or" /\ Clean(trace)
            /\ IsSuccess(e) /\ NoEntryBefore(trace, <<2>>, j)) =>
              /\ \A id \in VarsOf(second(pattern)) \ VarsOf(first(pattern)) :
                    ~e.binding[id].bound
              /\ ~HasQuantifier(first(pattern)) =>
                    /\ NoEntryBefore(trace, <<2>>, Len(trace) + 1)
                    /\ Len(Successes(trace)) = 1
                    /\ Len(Failures(trace)) = 0

C6_OrStep ==
    (/\ ctl'.op = "unify" /\ ctl'.self.pos # <<>> /\ Last(ctl'.self.pos) = 2
     /\ NodeAt(pattern, Front(ctl'.self.pos)).kind = "Or")
        => /\ ctl.op = "fail" /\ ctl.f.k = "lambda_or"
           /\ IsPrefix(Append(Front(ctl'.self.pos), 1), ctl.pattern.pos)

EachIf(x) == Place(Each(If(Variable(x))), <<>>)

C7_GuardForwards ==
    /\ \A j \in 1..Len(trace) :
          LET e == trace[j] IN
          (IsEntry(e) /\ e.kind = "Ensure" /\ j < Len(trace)) =>
              LET n == trace[j + 1] IN
              IF EnsureFn(NodeAt(pattern, e.pos), e.value)
              THEN /\ IsEntry(n) /\ n.pos = Append(e.pos, 1)
                   /\ n.value = e.value
                   /\ n.cont = e.cont /\ n.fail = e.fail
              ELSE ~(IsEntry(n) /\ IsPrefix(e.pos, n.pos))
    /\ \A i \in Finished :
          LET S == Successes(outcomes[i].trace) IN
          /\ (/\ pattern.kind = "Ensure" /\ into(pattern).kind = "Nothing")
                => Len(S) = 0
          /\ (/\ pattern.kind = "Ensure" /\ into(pattern).kind = "Variable"
              /\ Clean(outcomes[i].trace))
                => \A k \in 1..Len(S) :
                      S[k].binding[into(pattern).name]
                          = [bound |-> TRUE, value |-> value]
          /\ \A x \in VarIds :
                (/\ pattern = EachIf(x) /\ value = DocList
                 /\ Clean(outcomes[i].trace))
                    => /\ Len(S) = 2
                       /\ S[1].binding[x] = [bound |-> TRUE, value |-> IntV(1)]
                       /\ S[2].binding[x] = [bound |-> TRUE, value |-> IntV(2)]

(***************************************************************************)
(* The record of a call of a quantifier Q ** P on a collection.            *)
(***************************************************************************)
\* the caller's pattern is MatchAny(must_exist, only_once, P) and its value
\* is a collection
TopMatchAny(must_exist, only_once) ==
    /\ pattern.kind = "MatchAny"
    /\ pattern.must_exist = must_exist /\ pattern.only_once = only_once
    /\ value.t = "list"

\* event e is the entry of a match of P
IsPEntry(e) == IsEntry(e) /\ e.pos = <<1>>

PEntries(tr) == SelectSeq(tr, IsPEntry)

\* the onSuccess invocations made while the entry matched at event j is
\* the current one
SuccessesOf(tr, j) ==
    {m \in (j + 1)..Len(tr) :
        /\ IsSuccess(tr[m])
        /\ \A k \in (j + 1)..m : ~IsPEntry(tr[k])}

\* the entries of the collection are tried in iteration order, each with
\* the silent failure continuation
InOrder(tr) ==
    LET E == PEntries(tr) IN
    /\ Len(E) <= Len(value.v)
    /\ \A k \in 1..Len(E) : E[k].value = value.v[k] /\ E[k].fail = fail_silent

\* onFailure is invoked exactly once, with the quantifier and the collection
FailsOnce(tr) ==
    LET F == Failures(tr) IN
    /\ Len(F) = 1
    /\ F[1].pos = <<>> /\ F[1].kind = "MatchAny" /\ F[1].value = value

RECURSIVE FlatLen(_)
\* the number of entries of the collections in s
FlatLen(s) == IF s = <<>> THEN 0 ELSE Len(Head(s).v) + FlatLen(Tail(s))

(***************************************************************************)
(* C8.  First ** P on a collection tries the entries in iteration order,   *)
(* invokes the outer onSuccess for the first entry on which P succeeds     *)
(* and tries no entry after it; if P succeeds on no entry (the empty       *)
(* collection included) it invokes the outer onFailure exactly once with   *)
(* (the quantifier, the whole collection) and never onSuccess; P's         *)
(* failures on the entries never reach the outer onFailure.                *)
(***************************************************************************)
C8_First ==
    \A i \in Finished :
        LET tr == outcomes[i].trace
            S == Successes(tr)
            F == Failures(tr)
        IN  (TopMatchAny(TRUE, TRUE) /\ outcomes[i].result = "returned") =>
                /\ InOrder(tr)
                /\ \A j \in 1..Len(tr) :
                      IsPEntry(tr[j]) =>
                          IF SuccessesOf(tr, j) # {}
                          THEN \A k \in (j + 1)..Len(tr) : ~IsPEntry(tr[k])
                          ELSE \/ \E k \in (j + 1)..Len(tr) : IsPEntry(tr[k])
                               \/ tr[j].value = value.v[Len(value.v)]
                                    /\ Len(PEntries(tr)) = Len(value.v)
                /\ \A k \in 1..Len(F) : F[k].pos = <<>>
                /\ IF Len(S) = 0
                   THEN FailsOnce(tr) /\ Len(PEntries(tr)) = Len(value.v)
                   ELSE Len(F) = 0

\* First has skipped an entry on which P failed, succeeded on the next one
\* and returned leaving the rest of the collection untried
C8_Witness ==
    /\ TopMatchAny(TRUE, TRUE)
    /\ \E i \in Finished :
          LET tr == outcomes[i].trace IN
          /\ outcomes[i].result = "returned"
          /\ Len(Successes(tr)) > 0
          /\ Len(PEntries(tr)) = 2
          /\ Len(value.v) > 2

(***************************************************************************)
(* C9.  Some ** P on a collection tries every entry in iteration order     *)
(* and invokes the outer onSuccess once for each success of P on an        *)
(* entry: once per entry on which P succeeds when P contains no            *)
(* quantifier, and once per entry of the entries when P is itself          *)
(* Some ** v or Each ** v; with P an unbound Variable v, v is bound to     *)
(* each entry in turn and no other Variable is bound; after the iteration  *)
(* the outer onFailure is invoked exactly once, with (the quantifier, the  *)
(* collection), if and only if onSuccess was not invoked.                  *)
(***************************************************************************)
C9_Some ==
    \A i \in Finished :
        LET tr == outcomes[i].trace
            S == Successes(tr)
            P == into(pattern)
        IN  (/\ TopMatchAny(TRUE, FALSE) /\ outcomes[i].result = "returned"
             /\ Clean(tr)) =>
                /\ InOrder(tr) /\ Len(PEntries(tr)) = Len(value.v)
                /\ ~HasQuantifier(P) =>
                      \A j \in 1..Len(tr) :
                          IsPEntry(tr[j]) => Cardinality(SuccessesOf(tr, j)) <= 1
                /\ P.kind = "Variable" =>
                      /\ Len(S) = Len(value.v)
                      /\ \A k \in 1..Len(S) :
                            S[k].binding =
                                [[id \in VarIds |-> Unbound] EXCEPT
                                    ![P.name] = [bound |-> TRUE, value |-> value.v[k]]]
                /\ (P.kind = "MatchAny" /\ ~P.only_once /\ into(P).kind = "Variable") =>
                      Len(S) = FlatLen(value.v)
                /\ IF Len(S) = 0 THEN FailsOnce(tr) ELSE Len(Failures(tr)) = 0

\* Some ** (Q ** v) has invoked onSuccess more often than the collection
\* has entries
C9_Witness ==
    /\ TopMatchAny(TRUE, FALSE)
    /\ \E i \in Finished :
          /\ outcomes[i].result = "returned" /\ Clean(outcomes[i].trace)
          /\ Len(Successes(outcomes[i].trace)) > Len(value.v)

\* C9 as the claim words it: onSuccess once per entry on which P succeeds
C9_SomeOncePerElement ==
    \A i \in Finished :
        LET tr == outcomes[i].trace
            S == Successes(tr)
        IN  (/\ TopMatchAny(TRUE, FALSE) /\ outcomes[i].result = "returned"
             /\ Clean(tr)) =>
                /\ InOrder(tr) /\ Len(PEntries(tr)) = Len(value.v)
                /\ Len(S) = Cardinality({j \in 1..Len(tr) :
                                IsPEntry(tr[j]) /\ SuccessesOf(tr, j) # {}})
                /\ IF Len(S) = 0 THEN FailsOnce(tr) ELSE Len(Failures(tr)) = 0

(***************************************************************************)
(* C10.  Each ** P never invokes the outer onFailure, for any value and    *)
(* any P; on a collection it invokes onSuccess once for each success of    *)
(* P on an entry (once per entry on which P succeeds when P contains no    *)
(* quantifier, once per entry of the entries when P is Some ** v or        *)
(* Each ** v), and neither callback when the collection is empty or P      *)
(* succeeds on no entry.                                                   *)
(***************************************************************************)
TopEach ==
    pattern.kind = "MatchAny" /\ ~pattern.must_exist /\ ~pattern.only_once

C10_Each ==
    /\ TopEach => Len(Failures(trace)) = 0
    /\ \A i \in Finished :
          LET tr == outcomes[i].trace
              S == Successes(tr)
              P == into(pattern)
          IN  (/\ TopMatchAny(FALSE, FALSE) /\ outcomes[i].result = "returned"
               /\ Clean(tr)) =>
                  /\ InOrder(tr) /\ Len(PEntries(tr)) = Len(value.v)
                  /\ ~HasQuantifier(P) =>
                        \A j \in 1..Len(tr) :
                            IsPEntry(tr[j]) => Cardinality(SuccessesOf(tr, j)) <= 1
                  /\ P.kind = "Variable" => Len(S) = Len(value.v)
                  /\ (P.kind = "MatchAny" /\ ~P.only_once /\ into(P).kind = "Variable") =>
                        Len(S) = FlatLen(value.v)
                  /\ Len(value.v) = 0 => Len(Callbacks(tr)) = 0
                  /\ Len(Failures(tr)) = 0

\* Each ** P has returned from a collection with entries without invoking
\* either callback
C10_Witness ==
    /\ TopMatchAny(FALSE, FALSE)
    /\ \E i \in Finished :
          LET tr == outcomes[i].trace IN
          /\ outcomes[i].result = "returned"
          /\ Len(PEntries(tr)) = Len(value.v) /\ Len(value.v) > 0
          /\ Len(Callbacks(tr)) = 0

\* C10 as the claim words it: onSuccess once per entry on which P succeeds
C10_EachOncePerElement ==
    /\ TopEach => Len(Failures(trace)) = 0
    /\ \A i \in Finished :
          LET tr == outcomes[i].trace
              S == Successes(tr)
          IN  (/\ TopMatchAny(FALSE, FALSE) /\ outcomes[i].result = "returned"
               /\ Clean(tr)) =>
                  Len(S) = Cardinality({j \in 1..Len(tr) :
                                IsPEntry(tr[j]) /\ SuccessesOf(tr, j) # {}})

(***************************************************************************)
(* The record of a call of All ** P on a collection.                       *)
(***************************************************************************)
\* the caller's pattern is MatchAll(P) and its value is a collection
TopMatchAll == pattern.kind = "MatchAll" /\ value.t = "list"

\* the entries of s that differ from c
Differing(s, c) == {k \in 1..Len(s) : ~PyEq(s[k], c)}

\* the least member of a non-empty set of numbers
Least(K) == CHOOSE k \in K : \A m \in K : k <= m

(***************************************************************************)
(* C11.  All ** P on a collection matches P against the entries in         *)
(* iteration order; at the first entry on which P fails it stops (later    *)
(* entries are not tried) and invokes the outer onFailure exactly once     *)
(* with (the MatchAll, the whole collection).  Stated for P = Nothing and  *)
(* P = Constant(c), whose failing entries are known.  The code's loop      *)
(* reads self.each, which no MatchAll has: the first entry raises          *)
(* AttributeError before P is matched.                                     *)
(***************************************************************************)
C11_AllFails ==
    \A i \in Finished :
        LET tr == outcomes[i].trace
            E == PEntries(tr)
            P == into(pattern)
            bad == IF P.kind = "Nothing" THEN 1..Len(value.v)
                   ELSE Differing(value.v, P.value)
        IN  (/\ TopMatchAll /\ P.kind \in {"Nothing", "Constant"}
             /\ bad # {}) =>
                /\ outcomes[i].result = "returned"
                /\ Len(E) = Least(bad)
                /\ \A k \in 1..Len(E) : E[k].value = value.v[k]
                /\ Len(Failures(tr)) = 1
                /\ Failures(tr)[1].pos = <<>>
                /\ Failures(tr)[1].kind = "MatchAll"
                /\ Failures(tr)[1].value = value

(***************************************************************************)
(* C12.  When P succeeds on every entry of a non-empty collection,         *)
(* All ** P invokes the outer onSuccess exactly once for the whole call    *)
(* and never onFailure.  Stated for P = Anything and for P = Constant(c)   *)
(* on a collection of c's.  The code raises AttributeError at the first    *)
(* entry and invokes no callback.                                          *)
(***************************************************************************)
C12_AllSucceedsOnce ==
    \A i \in Finished :
        LET tr == outcomes[i].trace
            P == into(pattern)
        IN  (/\ TopMatchAll /\ Len(value.v) > 0
             /\ \/ P.kind = "Anything"
                \/ P.kind = "Constant" /\ Differing(value.v, P.value) = {}) =>
                /\ outcomes[i].result = "returned"
                /\ Len(Successes(tr)) = 1
                /\ Len(Failures(tr)) = 0

(***************************************************************************)
(* C13.  When the derivation of an Attribute or Index pattern raises a     *)
(* missing-field, missing-key or out-of-range fault on value x, the        *)
(* pattern calls its failure continuation with (itself, x) and does not    *)
(* match its continuation pattern; as the caller's pattern it invokes      *)
(* onFailure exactly once with (the pattern, x), never onSuccess, and      *)
(* returns normally.  When the derivation succeeds the continuation        *)
(* pattern is matched against the derived value, with the same             *)
(* continuations.                                                          *)
(***************************************************************************)
\* the faults the claim names
LookupFault(r) == r.exc \in {"AttributeError", "KeyError", "IndexError"}

C13_SoftFault ==
    /\ \A j \in 1..Len(trace) :
          LET e == trace[j] IN
          (IsEntry(e) /\ e.kind = "Match") =>
              LET r == MatchFn(NodeAt(pattern, e.pos), e.value) IN
              /\ LookupFault(r) =>
                    /\ j < Len(trace) =>
                          ~(IsEntry(trace[j + 1])
                              /\ trace[j + 1].pos = Append(e.pos, 1))
                    /\ e.fail = onFailure =>
                          \/ j = Len(trace)
                          \/ /\ IsFailure(trace[j + 1])
                             /\ trace[j + 1].pos = e.pos
                             /\ trace[j + 1].value = e.value
              /\ (r.exc = "none" /\ j < Len(trace)) =>
                    LET n == trace[j + 1] IN
                    /\ IsEntry(n) /\ n.pos = Append(e.pos, 1)
                    /\ n.value = r.val
                    /\ n.cont = e.cont /\ n.fail = e.fail
    /\ \A i \in Finished :
          LET tr == outcomes[i].trace IN
          (pattern.kind = "Match" /\ LookupFault(MatchFn(pattern, value))) =>
              /\ outcomes[i].result = "returned"
              /\ Len(Failures(tr)) = 1
              /\ Failures(tr)[1].pos = <<>> /\ Failures(tr)[1].value = value
              /\ Len(Successes(tr)) = 0
              /\ Len(tr) = 3

\* the step of a Match whose derivation raises one of these faults
C13_MatchStep ==
    (Unifying("Match") /\ LookupFault(MatchFn(ctl.self, ctl.value))) =>
        /\ ctl' = Fail(ctl.fail, ctl.self, ctl.value)
        /\ stack' = stack /\ binding' = binding

C13_Conversion == [](C13_SoftFault) /\ [][C13_MatchStep]_vars

\* an Index pattern has returned after reporting an out-of-range lookup
C13_Witness ==
    /\ pattern.kind = "Match" /\ pattern.name = "[]"
    /\ MatchFn(pattern, value).exc = "IndexError"
    /\ \E i \in Finished :
          /\ outcomes[i].result = "returned"
          /\ Len(Failures(outcomes[i].trace)) = 1

(***************************************************************************)
(* C14.  No pattern raises to the caller of unify: for every pattern       *)
(* built from the provided constructors and every value supporting the     *)
(* lookups and iterations the pattern requires, unify returns normally.    *)
(* The code raises AttributeError from All ** P on every non-empty         *)
(* collection.                                                             *)
(***************************************************************************)
RECURSIVE Supports(_, _)
\* value v supports what tree n requires of it: an index lookup and an
\* iteration require a collection, and what they yield supports the rest
Supports(n, v) ==
    CASE n.kind \in {"And", "Or"} ->
            Supports(first(n), v) /\ Supports(second(n), v)
      [] n.kind = "Match" ->
            /\ n.name = "[]" => v.t = "list"
            /\ MatchFn(n, v).exc = "none" => Supports(into(n), MatchFn(n, v).val)
      [] n.kind \in {"MatchAny", "MatchAll"} ->
            /\ v.t = "list"
            /\ \A k \in 1..Len(v.v) : Supports(into(n), v.v[k])
      [] OTHER -> TRUE

C14_NoRaise ==
    \A i \in Finished :
        Supports(pattern, value) => outcomes[i].result = "returned"

(***************************************************************************)
(* C15.  Leaf outcomes, for every value v: Anything invokes onSuccess      *)
(* exactly once and never onFailure; Nothing invokes onFailure(self, v)    *)
(* exactly once and never onSuccess; Constant(k) invokes onSuccess         *)
(* exactly once if v == k and onFailure(self, v) exactly once otherwise;   *)
(* none of them changes any Variable's state.  As a step, wherever the     *)
(* leaf stands in a tree: it calls the one continuation and touches        *)
(* neither the Variables nor the stack.                                    *)
(***************************************************************************)
\* the call ends with one onSuccess and nothing else
OnlySucceeds(o) ==
    /\ o.result = "returned"
    /\ Len(Successes(o.trace)) = 1 /\ Len(Failures(o.trace)) = 0

\* the call ends with one onFailure(the caller's pattern, the value) and
\* nothing else
OnlyFails(o) ==
    /\ o.result = "returned"
    /\ Len(Successes(o.trace)) = 0 /\ Len(Failures(o.trace)) = 1
    /\ Failures(o.trace)[1].pos = <<>> /\ Failures(o.trace)[1].value = value

C15_LeafOutcome ==
    \A i \in Finished :
        LET o == outcomes[i] IN
        /\ pattern.kind = "Anything" => OnlySucceeds(o)
        /\ pattern.kind = "Nothing" => OnlyFails(o)
        /\ pattern.kind = "Constant" =>
              IF value = pattern.value THEN OnlySucceeds(o) ELSE OnlyFails(o)
        /\ pattern.kind \in {"Anything", "Nothing", "Constant"} =>
              \A j \in 1..Len(o.trace) : o.trace[j].binding = o.binding

C15_LeafStep ==
    /\ Unifying("Anything") => ctl' = Cont(ctl.cont)
    /\ Unifying("Nothing") => ctl' = Fail(ctl.fail, ctl.self, ctl.value)
    /\ Unifying("Constant") =>
          ctl' = IF ctl.value = ctl.self.value
                 THEN Cont(ctl.cont)
                 ELSE Fail(ctl.fail, ctl.self, ctl.value)
    /\ (ctl.op = "unify" /\ ctl.self.kind \in {"Anything", "Nothing", "Constant"})
          => binding' = binding /\ stack' = stack

C15_Leaves == [](C15_LeafOutcome) /\ [][C15_LeafStep]_vars

\* a Constant has reported a value that differs from its own
C15_Witness ==
    /\ pattern.kind = "Constant" /\ value # pattern.value
    /\ \E i \in Finished : Len(Failures(outcomes[i].trace)) = 1

(***************************************************************************)
(* C16.  Release on every exit path: a Variable bound by a match is        *)
(* unbound again once control has left the continuation the match          *)
(* invoked, whether that continuation returned or raised (a soft fault an  *)
(* enclosing Attribute or Index then converts included).  So a Variable    *)
(* is bound only while the activation of Variable.unify that bound it is   *)
(* on the stack, and a call made with every Variable unbound leaves every  *)
(* Variable unbound however it ends.  The code's Variable.unify has no     *)
(* handler: an exception passing through it skips line 192.                *)
(***************************************************************************)
C16_Release ==
    /\ \A id \in VarIds :
          binding[id].bound =>
              \E k \in 1..Len(stack) :
                  stack[k].f = "Variable" /\ stack[k].self.name = id
    /\ \A i \in Finished :
          Clean(outcomes[i].trace) => AllUnbound(outcomes[i].binding)

(***************************************************************************)
(* C17.  Failure reports are precise: whenever the caller's onFailure is   *)
(* invoked, its arguments are the sub-pattern that itself decided the      *)
(* failure and the exact value that sub-pattern was tested against;        *)
(* Attribute('foo') ** Constant(1) on an object with foo = 2 reports       *)
(* (Constant(1), 2); And and Or never report themselves.  The code's       *)
(* Match.unify also reports itself for a fault raised by its continuation  *)
(* pattern, which it did not decide.                                       *)
(***************************************************************************)
\* the node n, matched against v with the Variables as in b and the record
\* tr[i..j] of its match, fails by its own rule
Decides(n, v, b, tr, i, j) ==
    CASE n.kind = "Nothing" -> TRUE
      [] n.kind = "Constant" -> v # n.value
      [] n.kind = "Variable" -> b[n.name].bound /\ b[n.name].value # v
      [] n.kind = "Match" -> LookupFault(MatchFn(n, v))
      [] n.kind = "Ensure" -> ~EnsureFn(n, v)
      [] n.kind = "MatchAny" ->
            n.must_exist /\ \A m \in i..j : ~IsSuccess(tr[m])
      [] OTHER -> FALSE

C17_PreciseReports ==
    /\ \A j \in 1..Len(trace) :
          IsFailure(trace[j]) =>
              LET e == trace[j]
                  n == NodeAt(pattern, e.pos)
                  i == EntryBefore(trace, e.pos, j)
              IN  /\ e.kind \notin {"And", "Or"}
                  /\ e.value = trace[i].value
                  /\ Decides(n, e.value, trace[i].binding, trace, i, j)
    /\ \A i \in Finished :
          (/\ pattern = Place(Attribute("foo", Constant(IntV(1))), <<>>)
           /\ value.t = "obj" /\ value.v.foo = IntV(2)) =>
              LET F == Failures(outcomes[i].trace) IN
              /\ Len(F) = 1
              /\ F[1].kind = "Constant" /\ F[1].pos = <<1>>
              /\ F[1].value = IntV(2)

(***************************************************************************)
(* Callers whose success callback may raise: test.py's should_not_unify    *)
(* raises AssertionError; KeyError stands for a fault of the kind          *)
(* Match.unify converts.                                                   *)
(***************************************************************************)
CallbackFaults == {"AssertionError", "KeyError"}

\* the caller's success callback observes the Variables and raises
OnSuccess_raises ==
    /\ ctl.op = "cont" /\ ctl.f.k = "onSuccess"
    /\ trace' = Append(trace, [ev |-> "onSuccess", binding |-> binding])
    /\ \E exc \in CallbackFaults : ctl' = Raise(exc)
    /\ UNCHANGED <<pattern, value, binding, stack, cells, outcomes>>

NextRaising == Next \/ OnSuccess_raises

SpecRaising == Init /\ [][NextRaising]_vars

(***************************************************************************)
(* C18.  Extractors convert only faults of their own derivation: an        *)
(* Attribute or Index pattern E ** X calls its failure continuation with   *)
(* (E, value) only when E's own derivation raised a soft fault on that     *)
(* value; a soft fault raised later, by X or by the caller's onSuccess     *)
(* running inside it, is not reported as a failure of E, so E as the       *)
(* caller's pattern never invokes onFailure(E, value) after onSuccess.     *)
(* The code's try block spans the whole into.unify call.                   *)
(***************************************************************************)
C18_OwnFaultsOnly ==
    /\ (ctl.op = "fail" /\ ctl.pattern.kind = "Match") =>
          LookupFault(MatchFn(ctl.pattern, ctl.value))
    /\ pattern.kind = "Match" =>
          \A j \in 1..Len(trace) :
              (IsFailure(trace[j]) /\ trace[j].pos = <<>>) =>
                  \A m \in 1..(j - 1) : ~IsSuccess(trace[m])

(***************************************************************************)
(* C19.  Chained extraction composes right-to-left: Attribute(a) **        *)
(* Index(i) ** X matched against obj has exactly the outcome of matching   *)
(* X against obj.a[i] (an unbound Variable X is bound to obj.a[i] inside   *)
(* onSuccess), and fails through onFailure if either lookup soft-faults;   *)
(* test_pattern's conjunction (bar[1] bound to v1, foo and mock.foo both   *)
(* matched with v2) succeeds with both bindings live at onSuccess time     *)
(* when foo == mock.foo.                                                   *)
(***************************************************************************)
\* the caller's pattern is Attribute(a) ** Index(i) ** X with X a leaf
IsChain ==
    /\ pattern.kind = "Match" /\ pattern.name \in {"foo", "bar"}
    /\ into(pattern).kind = "Match" /\ into(pattern).name = "[]"
    /\ into(into(pattern)).kind \in {"Anything", "Nothing", "Constant", "Variable"}

\* test_pattern's pattern2
TestPattern ==
    Place(And(And(Attribute("bar", Index(1, Variable("v1"))),
                  Attribute("foo", Variable("v2"))),
              Attribute("mock", Attribute("foo", Variable("v2")))), <<>>)

C19_Chain ==
    \A n \in Finished :
        LET o == outcomes[n]
            S == Successes(o.trace)
            F == Failures(o.trace)
            a == pattern.name
            i == into(pattern).num
            X == into(into(pattern))
        IN
        /\ (IsChain /\ Clean(o.trace) /\ value.t = "obj") =>
              IF value.v[a] = Absent
              THEN \* the attribute lookup faults
                   /\ o.result = "returned" /\ Len(S) = 0 /\ Len(F) = 1
                   /\ F[1].pos = <<>> /\ F[1].value = value
              ELSE IF value.v[a].t # "list" THEN TRUE
              ELSE IF i + 1 > Len(value.v[a].v)
              THEN \* the index lookup faults
                   /\ o.result = "returned" /\ Len(S) = 0 /\ Len(F) = 1
                   /\ F[1].pos = <<1>> /\ F[1].value = value.v[a]
              ELSE LET x == value.v[a].v[i + 1]
                       fails == \/ X.kind = "Nothing"
                                \/ X.kind = "Constant" /\ X.value # x
                   IN  /\ o.result = "returned"
                       /\ Len(S) + Len(F) = 1
                       /\ fails => /\ Len(F) = 1
                                   /\ F[1].pos = <<1, 1>> /\ F[1].value = x
                       /\ ~fails => Len(S) = 1
                       /\ (~fails /\ X.kind = "Variable") =>
                             S[1].binding[X.name] = [bound |-> TRUE, value |-> x]
        /\ (pattern = TestPattern /\ Clean(o.trace) /\ value.t = "obj"
            /\ value.v.mock # Absent) =>
              IF value.v.foo = value.v.mock.v.foo
              THEN /\ o.result = "returned" /\ Len(S) = 1 /\ Len(F) = 0
                   /\ S[1].binding["v1"] = [bound |-> TRUE, value |-> value.v.bar.v[2]]
                   /\ S[1].binding["v2"] = [bound |-> TRUE, value |-> value.v.foo]
              ELSE Len(S) = 0

\* Attribute(a) ** Index(1) ** v has bound v to the second entry of obj.a,
\* which differs from the first
C19_Witness ==
    /\ IsChain /\ into(pattern).num = 1 /\ into(into(pattern)).kind = "Variable"
    /\ \E n \in Finished :
          LET S == Successes(outcomes[n].trace) IN
          /\ Clean(outcomes[n].trace) /\ Len(S) = 1
          /\ S[1].binding[into(into(pattern)).name].value = value.v[pattern.name].v[2]
          /\ value.v[pattern.name].v[2] # value.v[pattern.name].v[1]

(***************************************************************************)
(* C20.  Exactly one outcome without quantifiers: for every pattern tree   *)
(* that contains no collection quantifier (only Anything, Nothing,         *)
(* Constant, Variable, And, Or, Attribute, Index, If, Subtype), on a       *)
(* value that supports the tree's lookups and with callbacks that do not   *)
(* raise, a single top-level unify call returns having invoked the         *)
(* caller's callbacks exactly once in total: onSuccess once and onFailure  *)
(* never, or onFailure once and onSuccess never.                           *)
(***************************************************************************)
C20_OneOutcome ==
    \A i \in Finished :
        ~HasQuantifier(pattern) =>
            /\ Supports(pattern, value) => outcomes[i].result = "returned"
            /\ outcomes[i].result = "returned" =>
                  Len(Callbacks(outcomes[i].trace)) = 1

\* a conjunction or disjunction without quantifiers, with a Variable and a
\* lookup in it, has ended with its one onFailure
C20_Witness ==
    /\ ~HasQuantifier(pattern) /\ Supports(pattern, value)
    /\ pattern.kind \in {"And", "Or"}
    /\ VarsOf(pattern) # {}
    /\ \E k \in 1..Len(pattern.subs) : pattern.subs[k].kind = "Match"
    /\ \E i \in Finished : Len(Failures(outcomes[i].trace)) = 1

=============================================================================
